---------------------------- MODULE Spec2Model ----------------------------
(***************************************************************************)
(* Model of the SAR narrative pipeline of KARTHI3106/Barclays-SAR:         *)
(*   - the audit ledger (AuditLogger over DatabaseManager),                *)
(*   - SARGenerator.generate (src/main.py), stage by stage,                *)
(*   - LLMOrchestrator.generate_narrative with its fallback,               *)
(*   - CoordinatorAgent.execute (src/agents/a2a_agents.py).                *)
(*                                                                         *)
(* The specifications share the variables; each leaves the part it does    *)
(* not use at its initial value:                                           *)
(*   SpecAudit  the ledger driven by arbitrary callers,                    *)
(*   SpecGen    runs of SARGenerator.generate (LiveGen adds fairness),     *)
(*   SpecCoord  runs of CoordinatorAgent.execute,                          *)
(*   SpecExport the ledger with export_audit_trail,                        *)
(*   SpecMcp    one call_tool of an MCP tool server,                       *)
(*   SpecCaseInput, SpecParse, SpecFallback, SpecRisk, SpecPatterns,       *)
(*   SpecTypology                                                          *)
(*              the pure functions of the pipeline, each called once on    *)
(*              inputs drawn by the initial predicate.                     *)
(***************************************************************************)
EXTENDS Integers, Sequences, FiniteSets, TLC

VARIABLES
    now,              \* wall clock, in ticks (datetime.now / CURRENT_TIMESTAMP)
    conn,             \* conn[l]: DatabaseManager.conn of logger l is not None
    in_memory_trail,  \* in_memory_trail[l][c]: AuditLogger.in_memory_trail
    db_rows,          \* table sar_audit_trail of the shared SQLite file, in rowid order
    sar_cases,        \* table sar_cases: status column per case id, "absent" = no row
    n_calls,          \* ghost: n_calls[l][c] = number of log_event calls of l for c
    next_seq,         \* ghost: creation index given to the next event
    returned,         \* the value the last get_audit_trail / export_audit_trail returned
    raised,           \* ghost: an audit-ledger call let an exception escape
    \* SARGenerator.generate
    pc,               \* position of the run of generate
    raw,              \* case_json the run was given
    user_id,          \* user_id the run was given
    backend,          \* the generation backend _call_ollama is waiting for
    narrative,        \* narrative.narrative_text
    gen_path,         \* ghost: how the narrative text was produced
    fail_stage,       \* ghost: the step whose exception left generate, 0 = none
    output,           \* what generate handed to its caller
    \* CoordinatorAgent.execute
    cpc,              \* position of the run of execute
    craw,             \* case_json the run was given
    pipeline_log,     \* CoordinatorAgent.pipeline_log
    cstatus,          \* "status" of the dict execute returned
    \* pure functions of the pipeline, called on their own
    fn_name,          \* the function that was called, "none" before the call
    fn_arg,           \* the arguments it was called with
    fn_res            \* what it returned

auditVars == <<now, conn, in_memory_trail, db_rows, sar_cases, n_calls, next_seq,
               returned, raised>>
genVars == <<pc, raw, user_id, backend, narrative, gen_path, fail_stage, output>>
coordVars == <<cpc, craw, pipeline_log, cstatus>>

fnVars == <<fn_name, fn_arg, fn_res>>

vars == <<auditVars, genVars, coordVars, fnVars>>

---------------------------------------------------------------------------
(* Bounds *)
MaxEvents == 2        \* log_event calls in one behaviour
MaxTicks == 1         \* the clock runs from tick 0 to tick MaxTicks
TicksPerSecond == 1   \* ticks of datetime.now() inside one CURRENT_TIMESTAMP second

CaseIds == {"c1", "c2"}
Loggers == {1, 2}     \* AuditLogger instances (one per SARGenerator / AuditAgent)
NoneVal == "None"

\* A text, by its length and by where the fallback annotation ends in it
\* (marker_end = 0: the text does not hold the whole annotation).
Text(n, m) == [none |-> FALSE, len |-> n, marker_end |-> m]
NoneText == [none |-> TRUE, len |-> 0, marker_end |-> 0]
\* text[:n]
Take(t, n) ==
    IF t.none THEN t
    ELSE Text(IF t.len <= n THEN t.len ELSE n,
              IF t.marker_end <= n THEN t.marker_end ELSE 0)
Annotated(t) == ~t.none /\ t.marker_end > 0
NoReasoning == [none |-> TRUE, prompt_length |-> 0, response_length |-> 0,
                prompt_preview |-> NoneText, response_preview |-> NoneText,
                model |-> NoneVal]
GenLogger == 1        \* the AuditLogger of the SARGenerator
NoReturn == [logger |-> 0, case_id |-> NoneVal, trail |-> <<>>,
             calls_own |-> 0, calls_all |-> 0]

---------------------------------------------------------------------------
(* Sequence helpers *)
SeqSum(f, S) ==
    LET RECURSIVE Sum(_)
        Sum(T) == IF T = {} THEN 0
                  ELSE LET x == CHOOSE y \in T : TRUE IN f[x] + Sum(T \ {x})
    IN Sum(S)

IsPrefix(s, t) == Len(s) <= Len(t) /\ \A i \in 1..Len(s) : s[i] = t[i]

\* All orderings of the elements of the sequence s.
Orderings(s) ==
    LET n == Len(s)
        Bij == {f \in [1..n -> 1..n] : \A i, j \in 1..n : i # j => f[i] # f[j]}
    IN {[i \in 1..n |-> s[f[i]]] : f \in Bij}

---------------------------------------------------------------------------
(* Case input: models/case_input.py, DataParser.parse_case_input *)

\* str.strip() on the strings the inputs are drawn from.
Strip(str) ==
    CASE str = "" -> ""
      [] str = "  " -> ""
      [] str = " c2 " -> "c2"
      [] OTHER -> str

\* math.isnan(v) or math.isinf(v)
NonFinite(a) == a.kind \in {"nan", "inf", "-inf"}

\* Mutant: the date validator is missing.
TransactionValid_NoDateCheck(t) == ~NonFinite(t.amount)

\* Transaction: amount_must_be_finite, date_must_not_be_empty
TransactionValid(t) == ~NonFinite(t.amount) /\ Strip(t.date) # ""

\* CustomerInfo: name_must_not_be_empty, account_must_not_be_empty
CustomerValid(cu) == Strip(cu.name) # "" /\ Strip(cu.account_number) # ""

RequiredFields == {"case_id", "customer", "transactions", "alert_reason"}

\* Mutant: the amount validator is missing.
CaseInputValid_NoAmountCheck(r) ==
    /\ RequiredFields \subseteq r.present
    /\ Strip(r.case_id) # ""
    /\ Len(r.transactions) > 0
    /\ Strip(r.alert_reason) # ""
    /\ CustomerValid(r.customer)
    /\ \A i \in 1..Len(r.transactions) : Strip(r.transactions[i].date) # ""

\* CaseInput(**raw_json) does not raise.
CaseInputValid(r) ==
    /\ RequiredFields \subseteq r.present
    /\ Strip(r.case_id) # ""
    /\ Len(r.transactions) > 0
    /\ Strip(r.alert_reason) # ""
    /\ CustomerValid(r.customer)
    /\ \A i \in 1..Len(r.transactions) : TransactionValid(r.transactions[i])

\* DataParser.parse_case_input: the validated (and anonymized) case, or the
\* validation error. anonymize_case keeps case_id, alert_reason, the notes and
\* every amount and date.
parse_case_input(r) ==
    [ok |-> CaseInputValid(r),
     case_id |-> Strip(r.case_id),
     notes_len |-> r.notes_len,
     fields_len |-> r.fields_len]

Amount(v) == [kind |-> "finite", v |-> v]
NaN == [kind |-> "nan", v |-> 0]
Txn(d, a) == [date |-> d, amount |-> a]
Raw(cid, reason, txns, notes) ==
    [present |-> RequiredFields \cup {"investigation_notes"},
     case_id |-> cid,
     alert_reason |-> reason,
     customer |-> [name |-> "A. Kumar", account_number |-> "ACC-1"],
     transactions |-> txns,
     notes_len |-> notes,
     fields_len |-> 120]
NoRaw == Raw(NoneVal, NoneVal, <<>>, 0)

\* The case_json values the runs are given.
RawCases ==
    {Raw("c1", "structuring alert", <<Txn("2024-01-15", Amount(950000))>>, 200),
     Raw("c1", "structuring alert", <<Txn("2024-01-15", Amount(950000))>>, 6000),
     Raw(" c2 ", "wire alert", <<Txn("15-01-2024", Amount(-5000000)),
                                Txn("2024-01-16", Amount(10000))>>, 0),
     Raw("c2", "wire alert", <<Txn("2024-01-15", NaN)>>, 0),
     Raw("  ", "wire alert", <<Txn("2024-01-15", Amount(10000))>>, 0),
     Raw("c1", "structuring alert", <<>>, 0),
     [Raw("c1", "", <<Txn("2024-01-15", Amount(10000))>>, 0)
        EXCEPT !.present = @ \ {"alert_reason"}]}
Users == {"system", "analyst"}

---------------------------------------------------------------------------
(* DatabaseManager *)

\* CURRENT_TIMESTAMP: the clock at one-second resolution.
CurrentTimestamp(t) == t \div TicksPerSecond

\* The row INSERT INTO sar_audit_trail creates: id AUTOINCREMENT, timestamp
\* DEFAULT CURRENT_TIMESTAMP, the other columns from the event.
DbRow(rows, ev, t) ==
    [id |-> Len(rows) + 1,
     case_id |-> ev.case_id,
     timestamp |-> CurrentTimestamp(t),
     event_type |-> ev.event_type,
     user_id |-> ev.user_id,
     llm_reasoning |-> ev.llm_reasoning,
     generated_output |-> ev.generated_output,
     model_version |-> ev.model_version,
     seq |-> ev.seq]

\* Mutant: the INSERT is not wrapped in try/except, its failure escapes.
DbLogAuditEvent_NoCatch(rows, connected, ins_ok, ev, t) ==
    IF ~connected THEN [rows |-> rows, exc |-> FALSE]
    ELSE IF ~ins_ok THEN [rows |-> rows, exc |-> TRUE]
    ELSE [rows |-> Append(rows, DbRow(rows, ev, t)), exc |-> FALSE]

\* DatabaseManager.log_audit_event: the table after the call. No connection:
\* nothing is written. The INSERT raises (ins_ok = FALSE): the exception is
\* caught and logged, nothing is written.
\* The value is the table after the call and whether an exception escapes.
DbLogAuditEvent(rows, connected, ins_ok, ev, t) ==
    IF ~connected THEN [rows |-> rows, exc |-> FALSE]
    ELSE IF ~ins_ok THEN [rows |-> rows, exc |-> FALSE]
    ELSE [rows |-> Append(rows, DbRow(rows, ev, t)), exc |-> FALSE]

\* SELECT * FROM sar_audit_trail WHERE case_id = ? ORDER BY timestamp ASC:
\* every sequence of the rows of c that is sorted by timestamp. SQLite leaves
\* the order of rows with equal ORDER BY keys undefined.
OrderByTimestamp(rs) ==
    {p \in Orderings(rs) :
        \A i \in 1..Len(p) - 1 : p[i].timestamp <= p[i + 1].timestamp}

DbGetAuditTrail(rows, connected, c) ==
    IF ~connected THEN {<<>>}
    ELSE OrderByTimestamp(SelectSeq(rows, LAMBDA r : r.case_id = c))

---------------------------------------------------------------------------
(* AuditLogger *)

\* The event dict log_event builds (the ghost seq is its creation index).
\* Mutant: the event is written under the default user.
Event_DefaultUser(c, et, uid, reasoning, out, model, t, sq) ==
    [case_id |-> c,
     timestamp |-> t,
     event_type |-> et,
     user_id |-> "system",
     llm_reasoning |-> reasoning,
     generated_output |-> out,
     model_version |-> model,
     seq |-> sq]

Event(c, et, uid, reasoning, out, model, t, sq) ==
    [case_id |-> c,
     timestamp |-> t,
     event_type |-> et,
     user_id |-> uid,
     llm_reasoning |-> reasoning,
     generated_output |-> out,
     model_version |-> model,
     seq |-> sq]

\* AuditLogger.log_event: append to the in-memory trail, then write to the
\* durable store. An exception of the store call would leave log_event after
\* the append (raised).
log_event(l, c, et, uid, reasoning, out, model, t, ins_ok) ==
    LET ev == Event(c, et, uid, reasoning, out, model, t, next_seq) IN
    /\ now' = t
    /\ in_memory_trail' =
          [in_memory_trail EXCEPT ![l][c] = Append(in_memory_trail[l][c], ev)]
    /\ db_rows' = DbLogAuditEvent(db_rows, conn[l], ins_ok, ev, t).rows
    /\ raised' = (raised \/ DbLogAuditEvent(db_rows, conn[l], ins_ok, ev, t).exc)
    /\ n_calls' = [n_calls EXCEPT ![l][c] = @ + 1]
    /\ next_seq' = next_seq + 1

\* Mutant: the durable trail and the in-memory trail are returned together.
get_audit_trail_Merged(l, c) ==
    {db_trail \o in_memory_trail[l][c] : db_trail \in DbGetAuditTrail(db_rows, conn[l], c)}

\* AuditLogger.get_audit_trail: the durable trail when it is not empty, else
\* the in-memory trail. The set of the values the call can return.
get_audit_trail(l, c) ==
    LET db_trails == DbGetAuditTrail(db_rows, conn[l], c) IN
    IF db_trails # {<<>>} THEN db_trails
    ELSE {in_memory_trail[l][c]}

CallsOwn(l, c) == n_calls[l][c]
CallsAll(c) == SeqSum([l \in Loggers |-> n_calls[l][c]], Loggers)
TotalCalls == SeqSum([c \in CaseIds |-> CallsAll(c)], CaseIds)

---------------------------------------------------------------------------
(* Actions of the ledger *)

\* The values datetime.now() can give at the next reading: the clock does not
\* run backwards.
ClockReadings == now..MaxTicks

\* Any caller: AuditLogger.log_event(case_id, event_type, user_id)
LogEvent(l, c) ==
    /\ TotalCalls < MaxEvents
    /\ \E t \in ClockReadings, ins_ok \in BOOLEAN :
          log_event(l, c, "qa_check", "tester", NoReasoning, NoneText, NoneVal, t, ins_ok)
    /\ UNCHANGED <<conn, sar_cases, returned, genVars, coordVars, fnVars>>

\* DatabaseManager.update_case_status: UPDATE sar_cases ... WHERE case_id = ?
UpdateCaseStatus(cases, connected, c, status) ==
    IF connected /\ cases[c] # "absent"
    THEN [cases EXCEPT ![c] = status]
    ELSE cases

\* SARGenerator.approve_narrative
ApproveNarrative(c) ==
    /\ TotalCalls < MaxEvents
    /\ \E t \in ClockReadings, ins_ok \in BOOLEAN :
          log_event(GenLogger, c, "approval", "analyst", NoReasoning, NoneText,
                    NoneVal, t, ins_ok)
    /\ sar_cases' = UpdateCaseStatus(sar_cases, conn[GenLogger], c, "approved")
    /\ UNCHANGED <<conn, returned, genVars, coordVars, fnVars>>

\* SARGenerator.reject_narrative
RejectNarrative(c) ==
    /\ TotalCalls < MaxEvents
    /\ \E t \in ClockReadings, ins_ok \in BOOLEAN :
          log_event(GenLogger, c, "rejection", "analyst", NoReasoning, NoneText,
                    NoneVal, t, ins_ok)
    /\ sar_cases' = UpdateCaseStatus(sar_cases, conn[GenLogger], c, "rejected")
    /\ UNCHANGED <<conn, returned, genVars, coordVars, fnVars>>

\* AuditLogger.get_audit_trail(case_id)
GetAuditTrail(l, c) ==
    /\ \E tr \in get_audit_trail(l, c) :
          returned' = [logger |-> l, case_id |-> c, trail |-> tr,
                       calls_own |-> CallsOwn(l, c), calls_all |-> CallsAll(c)]
    /\ UNCHANGED <<now, conn, in_memory_trail, db_rows, sar_cases, n_calls,
                   next_seq, raised, genVars, coordVars, fnVars>>

\* The state after construction of the loggers (AuditLogger.__init__ calls
\* connect, which leaves conn None when the store cannot be opened).
InitLedger ==
    /\ now = 0
    /\ conn \in [Loggers -> BOOLEAN]
    /\ in_memory_trail = [l \in Loggers |-> [c \in CaseIds |-> <<>>]]
    /\ db_rows = <<>>
    /\ sar_cases = [c \in CaseIds |-> IF c = "c1" THEN "draft" ELSE "absent"]
    /\ n_calls = [l \in Loggers |-> [c \in CaseIds |-> 0]]
    /\ next_seq = 1
    /\ returned = NoReturn
    /\ raised = FALSE

InitGenIdle ==
    /\ pc = "idle"
    /\ raw = NoRaw
    /\ user_id = NoneVal
    /\ backend = "none"
    /\ narrative = NoneText
    /\ gen_path = "none"
    /\ fail_stage = 0
    /\ output = "none"

InitCoordIdle ==
    /\ cpc = "idle"
    /\ craw = NoRaw
    /\ pipeline_log = <<>>
    /\ cstatus = "none"

InitFnIdle ==
    /\ fn_name = "none"
    /\ fn_arg = NoneVal
    /\ fn_res = NoneVal

InitAudit == InitLedger /\ InitGenIdle /\ InitCoordIdle /\ InitFnIdle

NextAudit ==
    \/ \E l \in Loggers, c \in CaseIds : LogEvent(l, c)
    \/ \E c \in CaseIds : ApproveNarrative(c)
    \/ \E c \in CaseIds : RejectNarrative(c)
    \/ \E l \in Loggers, c \in CaseIds : GetAuditTrail(l, c)

SpecAudit == InitAudit /\ [][NextAudit]_vars

---------------------------------------------------------------------------
(* The CaseInput constructor called on its own *)

MaxCaseTxns == 2      \* transactions of a raw case given to CaseInput

\* The raw cases: each required field present or missing, empty, blank or
\* filled; amounts finite or not; dates empty, blank or filled.
CaseInputs ==
    LET txns == [date : {"2024-01-15", "", "  "},
                 amount : {Amount(950000), NaN, [kind |-> "inf", v |-> 0]}]
    IN {[present |-> (RequiredFields \ missing) \cup {"investigation_notes"},
         case_id |-> cid,
         alert_reason |-> reason,
         customer |-> [name |-> name, account_number |-> "ACC-1"],
         transactions |-> ts,
         notes_len |-> 0,
         fields_len |-> 120] :
           missing \in {{}, {"case_id"}, {"alert_reason"}, {"transactions"}},
           cid \in {"c1", "", "  ", " c2 "},
           reason \in {"wire alert", "", "  "},
           name \in {"A. Kumar", ""},
           ts \in UNION {[1..n -> txns] : n \in 0..MaxCaseTxns}}

ParseCaseInput ==
    /\ fn_name = "none"
    /\ fn_name' = "parse_case_input"
    /\ fn_res' = parse_case_input(fn_arg)
    /\ UNCHANGED <<fn_arg, auditVars, genVars, coordVars>>

InitCaseInput ==
    /\ InitLedger
    /\ InitGenIdle
    /\ InitCoordIdle
    /\ fn_name = "none"
    /\ fn_arg \in CaseInputs
    /\ fn_res = NoneVal

SpecCaseInput == InitCaseInput /\ [][ParseCaseInput]_vars

---------------------------------------------------------------------------
(* LLMOrchestrator: components/llm_orchestrator.py *)

FallbackFixedLen == 1085   \* characters of the fallback template outside its fields
DefaultNotesLen == 43      \* 'No additional investigation notes provided.'
PreviewLimit == 500        \* response_received[:500]
AuditOutputLimit == 5000   \* narrative.narrative_text[:5000]
ModelName == "configured-model"   \* CONFIG["llm"]["model"]

\* _generate_fallback_narrative: the template with the case fields and the
\* notes substituted; the annotation is its last line, one newline follows.
FallbackNarrative(case) ==
    LET n == FallbackFixedLen + case.fields_len
             + (IF case.notes_len > 0 THEN case.notes_len ELSE DefaultNotesLen)
    IN Text(n, n - 1)

\* The prompt _build_prompt makes of the template and the fields: a text of
\* some length, below or above the preview limit.
PromptLens == {200, 3000}

\* What the backend can answer: a text of some length, or an exception.
LlmTextLens == {1800, 7000}
BackendErrors == {"ConnectionError", "ResponseError", "ImportError"}
Replies ==
    {[kind |-> "text", text |-> Text(n, 0), exc |-> NoneVal] : n \in LlmTextLens}
    \cup {[kind |-> "exc", text |-> NoneText, exc |-> e] : e \in BackendErrors}

\* _call_ollama: the langchain client when it can be imported, else the ollama
\* client, whose every Exception is re-raised as RuntimeError.
call_ollama(be, reply) ==
    IF reply.kind = "text" THEN [kind |-> "return", text |-> reply.text, exc |-> NoneVal]
    ELSE IF be = "langchain" THEN [kind |-> "raise", text |-> NoneText, exc |-> reply.exc]
    ELSE [kind |-> "raise", text |-> NoneText, exc |-> "RuntimeError"]

\* Mutant: the handler names RuntimeError instead of Exception.
ExceptException_OnlyRuntimeError(exc) == exc = "RuntimeError"

\* 'except Exception' in generate_narrative: does the handler take exc?
ExceptException(exc) ==
    exc \in {"ConnectionError", "ResponseError", "ImportError", "RuntimeError",
             "ValidationError", "AttributeError"}

\* generate_narrative after the backend call came back with res.
generate_narrative(case, res) ==
    IF res.kind = "return"
    THEN [ok |-> TRUE, text |-> res.text, path |-> "llm"]
    ELSE IF ExceptException(res.exc)
    THEN [ok |-> TRUE, text |-> FallbackNarrative(case), path |-> "fallback"]
    ELSE [ok |-> FALSE, text |-> NoneText, path |-> "none"]

\* Mutant: the previews are the whole texts.
get_audit_data_NoCut(prompt, text) ==
    [none |-> FALSE,
     prompt_length |-> prompt.len,
     response_length |-> text.len,
     prompt_preview |-> prompt,
     response_preview |-> text,
     model |-> ModelName]

\* LLMCallback.get_audit_data, serialised and cut by generate's step 5
get_audit_data(prompt, text) ==
    [none |-> FALSE,
     prompt_length |-> prompt.len,
     response_length |-> text.len,
     prompt_preview |-> Take(prompt, PreviewLimit),
     response_preview |-> Take(text, PreviewLimit),
     model |-> ModelName]

---------------------------------------------------------------------------
(* SARGenerator.generate: main.py, one action per step *)

Case == parse_case_input(raw)
Terminal == {"done", "raised"}

\* self.audit.log_event(...) of a step, and where the run goes after it: on to
\* nxt, or out of generate when log_event raised.
StepAudit(stage, et, reasoning, out, model, nxt) ==
    /\ \E t \in ClockReadings, ins_ok \in BOOLEAN :
          log_event(GenLogger, Case.case_id, et, user_id, reasoning, out, model,
                    t, ins_ok)
    /\ pc' = IF raised' THEN "raised" ELSE nxt
    /\ fail_stage' = IF raised' THEN stage ELSE fail_stage

\* Step 1: parse_case_input, then the data_input event
GenStep1(r, u) ==
    /\ pc = "idle"
    /\ raw' = r
    /\ user_id' = u
    /\ IF parse_case_input(r).ok
       THEN /\ \E t \in ClockReadings, ins_ok \in BOOLEAN :
                  log_event(GenLogger, parse_case_input(r).case_id, "data_input", u,
                            NoReasoning, NoneText, NoneVal, t, ins_ok)
            /\ pc' = IF raised' THEN "raised" ELSE "stats"
            /\ fail_stage' = IF raised' THEN 1 ELSE 0
       ELSE /\ pc' = "raised"
            /\ fail_stage' = 1
            /\ UNCHANGED <<now, in_memory_trail, db_rows, n_calls, next_seq, raised>>
    /\ UNCHANGED <<conn, sar_cases, returned, backend, narrative, gen_path, output,
                   coordVars, fnVars>>

\* Step 2: calculate_transaction_stats, then the analysis event
GenStep2 ==
    /\ pc = "stats"
    /\ StepAudit(2, "analysis", NoReasoning, NoneText, NoneVal, "patterns")
    /\ UNCHANGED <<conn, sar_cases, returned, raw, user_id, backend, narrative,
                   gen_path, output, coordVars, fnVars>>

\* Step 3: identify_patterns and calculate_risk_score, then the
\* pattern_detection event
GenStep3 ==
    /\ pc = "patterns"
    /\ StepAudit(3, "pattern_detection", NoReasoning, NoneText, NoneVal, "rag")
    /\ UNCHANGED <<conn, sar_cases, returned, raw, user_id, backend, narrative,
                   gen_path, output, coordVars, fnVars>>

\* Step 4: the similarity-store queries (retrieve_templates, identify_typology)
\* and get_regulatory_context, then the rag_retrieval event. An exception of
\* the store leaves generate.
GenStep4 ==
    /\ pc = "rag"
    /\ \E store_ok \in BOOLEAN :
          IF store_ok
          THEN StepAudit(4, "rag_retrieval", NoReasoning, NoneText, NoneVal, "llm")
          ELSE /\ pc' = "raised"
               /\ fail_stage' = 4
               /\ UNCHANGED <<now, in_memory_trail, db_rows, n_calls, next_seq, raised>>
    /\ UNCHANGED <<conn, sar_cases, returned, raw, user_id, backend, narrative,
                   gen_path, output, coordVars, fnVars>>

\* Step 5, first half: generate_narrative builds the prompt and _call_ollama
\* sends it, through langchain_ollama when it can be imported, else through
\* ollama. Neither call is given a timeout.
GenStep5Call ==
    /\ pc = "llm"
    /\ \E lc_import_ok \in BOOLEAN :
          backend' = IF lc_import_ok THEN "langchain" ELSE "direct"
    /\ pc' = "llm_wait"
    /\ UNCHANGED <<auditVars, raw, user_id, narrative, gen_path, fail_stage, output,
                   coordVars, fnVars>>

\* Step 5, second half: the backend answered with reply; generate_narrative
\* finishes and the llm_generation event is written.
GenStep5Finish(reply) ==
    LET res == generate_narrative(Case, call_ollama(backend, reply)) IN
    /\ pc = "llm_wait"
    /\ backend' = "none"
    /\ IF res.ok
       THEN /\ narrative' = res.text
            /\ gen_path' = res.path
            /\ \E plen \in PromptLens :
                  StepAudit(5, "llm_generation",
                            get_audit_data(Text(plen, 0), res.text),
                            Take(res.text, AuditOutputLimit), ModelName, "explain")
       ELSE /\ pc' = "raised"
            /\ fail_stage' = 5
            /\ UNCHANGED <<narrative, gen_path, now, in_memory_trail, db_rows,
                           n_calls, next_seq, raised>>
    /\ UNCHANGED <<conn, sar_cases, returned, raw, user_id, output, coordVars, fnVars>>

BackendReturns == \E reply \in Replies : reply.kind = "text" /\ GenStep5Finish(reply)
BackendRaises == \E reply \in Replies : reply.kind = "exc" /\ GenStep5Finish(reply)

\* Step 6: the explainability output and its event, then the return
GenStep6 ==
    /\ pc = "explain"
    /\ StepAudit(6, "explainability", NoReasoning, NoneText, NoneVal, "done")
    /\ output' = IF raised' THEN "none" ELSE "narrative, explainability"
    /\ UNCHANGED <<conn, sar_cases, returned, raw, user_id, backend, narrative,
                   gen_path, coordVars, fnVars>>

\* The steps generate takes by itself, and all steps.
GenProgramStep == GenStep2 \/ GenStep3 \/ GenStep4 \/ GenStep5Call \/ GenStep6

InitGen ==
    /\ InitLedger
    /\ InitGenIdle
    /\ InitCoordIdle
    /\ InitFnIdle

NextGen ==
    \/ \E r \in RawCases, u \in Users : GenStep1(r, u)
    \/ GenStep2
    \/ GenStep3
    \/ GenStep4
    \/ GenStep5Call
    \/ BackendReturns
    \/ BackendRaises
    \/ GenStep6

SpecGen == InitGen /\ [][NextGen]_vars

\* generate runs its own steps whenever it can; nothing makes the backend answer.
LiveGen == SpecGen /\ WF_vars(GenProgramStep)

---------------------------------------------------------------------------
(* CoordinatorAgent.execute: agents/a2a_agents.py, one action per agent step *)

CoordLogger == 2      \* the AuditLogger of the AuditAgent
DataAgent == "data_enrichment_agent"
TypologyAgent == "typology_agent"
NarrativeAgent == "narrative_agent"
AuditAgent == "audit_agent"

\* AgentResult.to_dict(), as far as the pipeline reads it
AgentResult(agent, ok) ==
    [agent_name |-> agent, status |-> IF ok THEN "completed" ELSE "failed"]

\* DataEnrichmentAgent.execute: parse, stats, patterns, risk score; every
\* exception becomes a result with status "failed".
DataEnrichmentExecute(r, analysis_ok) ==
    AgentResult(DataAgent, parse_case_input(r).ok /\ analysis_ok)

\* Mutant: execute goes on whatever the upstream agent returned.
UpstreamFailed_Never(result) == FALSE

\* 'if data_result.status != "completed"' / 'if typology_result.status != ...'
UpstreamFailed(result) == result.status # "completed"

\* _log_audit: AuditAgent.execute calls log_event on its own logger, catches
\* whatever it raises, and its result is appended to the pipeline log.
LogAudit(log, c, step, sender) ==
    /\ \E t \in ClockReadings, ins_ok \in BOOLEAN :
          log_event(CoordLogger, c, step, sender, NoReasoning, NoneText, NoneVal,
                    t, ins_ok)
    /\ pipeline_log' = Append(log, AgentResult(AuditAgent, ~raised'))

\* Step 1: the data enrichment agent, the check of its status, its audit
CoordDataEnrichment(r) ==
    /\ cpc = "idle"
    /\ craw' = r
    /\ \E analysis_ok \in BOOLEAN :
          LET result == DataEnrichmentExecute(r, analysis_ok)
              log == <<result>>
          IN IF UpstreamFailed(result)
             THEN /\ pipeline_log' = log
                  /\ cstatus' = "failed"
                  /\ cpc' = "returned"
                  /\ UNCHANGED <<now, in_memory_trail, db_rows, n_calls, next_seq,
                                 raised>>
             ELSE /\ LogAudit(log, parse_case_input(r).case_id, "a2a_data_enrichment",
                              "a2a:data_enrichment_agent")
                  /\ cstatus' = cstatus
                  /\ cpc' = "typology"
    /\ UNCHANGED <<conn, sar_cases, returned, genVars, fnVars>>

\* Step 2: the typology agent (it fails when the similarity store raises),
\* the check of its status, its audit
CoordTypology ==
    /\ cpc = "typology"
    /\ \E typ_ok \in BOOLEAN :
          LET result == AgentResult(TypologyAgent, typ_ok)
              log == Append(pipeline_log, result)
          IN IF UpstreamFailed(result)
             THEN /\ pipeline_log' = log
                  /\ cstatus' = "failed"
                  /\ cpc' = "returned"
                  /\ UNCHANGED <<now, in_memory_trail, db_rows, n_calls, next_seq,
                                 raised>>
             ELSE /\ LogAudit(log, Strip(craw.case_id), "a2a_typology_classification",
                              "a2a:typology_agent")
                  /\ cstatus' = cstatus
                  /\ cpc' = "narrative"
    /\ UNCHANGED <<conn, sar_cases, returned, craw, genVars, fnVars>>

\* Step 3: the narrative agent (it fails when the case does not validate
\* again or the similarity store raises), its audit, the returned status
CoordNarrative ==
    /\ cpc = "narrative"
    /\ \E narr_ok \in BOOLEAN :
          LET result == AgentResult(NarrativeAgent, narr_ok)
          IN /\ LogAudit(Append(pipeline_log, result), Strip(craw.case_id),
                         "a2a_narrative_generation", "a2a:narrative_agent")
             /\ cstatus' = IF result.status = "completed" THEN "completed"
                           ELSE "partial"
    /\ cpc' = "returned"
    /\ UNCHANGED <<conn, sar_cases, returned, craw, genVars, fnVars>>

InitCoord ==
    /\ InitLedger
    /\ InitGenIdle
    /\ InitCoordIdle
    /\ InitFnIdle

NextCoord ==
    \/ \E r \in RawCases : CoordDataEnrichment(r)
    \/ CoordTypology
    \/ CoordNarrative

SpecCoord == InitCoord /\ [][NextCoord]_vars

---------------------------------------------------------------------------
(* LLMOrchestrator._parse_narrative: components/llm_orchestrator.py *)

MaxTextLen == 3       \* pieces of a narrative text given to _parse_narrative

\* A narrative text is a sequence of pieces: a section header as the
\* generator may write it, a word of body text, or white space.
SectionKeys == <<"I", "II", "III", "IV", "V">>
HeaderText ==
    <<"I. SUMMARY OF SUSPICIOUS ACTIVITY",
      "II. ACCOUNT AND CUSTOMER INFORMATION",
      "III. DESCRIPTION OF SUSPICIOUS ACTIVITY",
      "IV. EXPLANATION OF SUSPICION",
      "V. CONCLUSION">>
HeaderTextLower ==
    <<"i. summary of suspicious activity",
      "ii. account and customer information",
      "iii. description of suspicious activity",
      "iv. explanation of suspicion",
      "v. conclusion">>
Pieces ==
    {HeaderText[i] : i \in 1..5} \cup {HeaderTextLower[i] : i \in 1..5}
    \cup {"word", " "}

\* re.search(section_headers[i][1], piece, re.IGNORECASE) matches
HeaderMatches(i, piece) == piece = HeaderText[i] \/ piece = HeaderTextLower[i]

\* Position of the first match of header i in text at or after from, 0 = none
FirstMatch(text, i, from) ==
    IF \E k \in from..Len(text) : HeaderMatches(i, text[k])
    THEN CHOOSE k \in from..Len(text) :
            /\ HeaderMatches(i, text[k])
            /\ \A j \in from..(k - 1) : ~HeaderMatches(i, text[j])
    ELSE 0

\* str.strip() on a text: white space at both ends removed
RECURSIVE StripText(_)
StripText(text) ==
    IF text = <<>> THEN <<>>
    ELSE IF Head(text) = " " THEN StripText(Tail(text))
    ELSE IF text[Len(text)] = " " THEN StripText(SubSeq(text, 1, Len(text) - 1))
    ELSE text

\* The body the loop stores for header i (which matches in text)
SectionBody(text, i) ==
    LET start == FirstMatch(text, i, 1) + 1
        next_match == IF i < 5 THEN FirstMatch(text, i + 1, start) ELSE 0
        end == IF next_match # 0 THEN next_match - 1 ELSE Len(text)
    IN StripText(SubSeq(text, start, end))

\* _parse_narrative: the sections dict, keys to bodies
parse_narrative(text) ==
    LET found == {i \in 1..5 : FirstMatch(text, i, 1) # 0}
        keys == {SectionKeys[i] : i \in found}
        IndexOf(key) == CHOOSE i \in 1..5 : SectionKeys[i] = key
    IN IF found = {}
       THEN [key \in {"I"} |-> StripText(text)]
       ELSE [key \in keys |-> SectionBody(text, IndexOf(key))]

Texts == UNION {[1..n -> Pieces] : n \in 0..MaxTextLen}

ParseNarrative ==
    /\ fn_name = "none"
    /\ fn_name' = "_parse_narrative"
    /\ fn_res' = parse_narrative(fn_arg)
    /\ UNCHANGED <<fn_arg, auditVars, genVars, coordVars>>

InitParse ==
    /\ InitLedger
    /\ InitGenIdle
    /\ InitCoordIdle
    /\ fn_name = "none"
    /\ fn_arg \in Texts
    /\ fn_res = NoneVal

NextParse == ParseNarrative

SpecParse == InitParse /\ [][NextParse]_vars

---------------------------------------------------------------------------
(* LLMOrchestrator._generate_fallback_narrative, by its content *)

FallbackAnnotation ==
    "[This narrative was generated using template fallback -- LLM was unavailable]"
DefaultNotes == "No additional investigation notes provided."

\* f"{total_volume:,.2f}" on the volumes the inputs are drawn from
FormatVolume(v) ==
    CASE v = 0 -> "0.00"
      [] v = 3800000 -> "3,800,000.00"
      [] OTHER -> "20,000,000.00"

\* The f-string of _generate_fallback_narrative as a text: the fixed wording
\* as words, the fields where the template puts them, blank lines as " ".
FallbackText(c) ==
    <<HeaderText[1], " ", "word", c.name, "word", c.account_number, "word",
      FormatVolume(c.total_volume), "word", c.typology, " ">>
    \o <<HeaderText[2], " ", "word", c.name, "word", c.account_number, "word", " ">>
    \o <<HeaderText[3], " ", "Alert Reason:">> \o c.alert_reason
    \o <<" ", "Transaction Summary:", FormatVolume(c.total_volume), " ",
         "Suspicious Patterns:">> \o c.patterns \o <<" ">>
    \o <<HeaderText[4], " ">>
    \o (IF c.investigation_notes # <<>> THEN c.investigation_notes
        ELSE <<DefaultNotes>>)
    \o <<" ", "word", c.typology, " ">>
    \o <<HeaderText[5], "AND RECOMMENDATION", " ", "word", " ",
         FallbackAnnotation, " ">>

\* The free-text fields of a case: analyst wording that may quote a heading.
NotePieces == {"word", " ", "V. CONCLUSION", "iv. explanation of suspicion"}
NoteTexts == UNION {[1..n -> NotePieces] : n \in 0..MaxTextLen}
FallbackInputs ==
    [name : {"A. Kumar"},
     account_number : {"ACC-1"},
     total_volume : {0, 3800000},
     typology : {"structuring", "unknown"},
     alert_reason : {<<"word">>},
     patterns : {<<>>, <<"- Potential structuring">>},
     investigation_notes : NoteTexts]

\* generate_narrative on the fallback branch: compose, then parse
FallbackAndParse ==
    /\ fn_name = "none"
    /\ fn_name' = "_generate_fallback_narrative"
    /\ fn_res' = [text |-> FallbackText(fn_arg),
                  sections |-> parse_narrative(FallbackText(fn_arg))]
    /\ UNCHANGED <<fn_arg, auditVars, genVars, coordVars>>

InitFallback ==
    /\ InitLedger
    /\ InitGenIdle
    /\ InitCoordIdle
    /\ fn_name = "none"
    /\ fn_arg \in FallbackInputs
    /\ fn_res = NoneVal

NextFallback == FallbackAndParse

SpecFallback == InitFallback /\ [][NextFallback]_vars

---------------------------------------------------------------------------
(* DataParser.calculate_risk_score: components/data_parser.py *)

MaxFindings == 6      \* findings in a list given to calculate_risk_score

Min(a, b) == IF a <= b THEN a ELSE b

\* total_volume / expected > k, for expected > 0
RatioAbove(total_volume, expected, k) == total_volume > k * expected

\* Mutant: a rating the map does not know counts above High.
KycScore_UnknownHighest(rating) ==
    CASE rating = "High" -> 15
      [] rating = "Medium" -> 5
      [] rating = "Low" -> 0
      [] OTHER -> 25

\* risk_map.get(case.customer.kyc_risk_rating, 5)
KycScore(rating) ==
    CASE rating = "High" -> 15
      [] rating = "Medium" -> 5
      [] rating = "Low" -> 0
      [] OTHER -> 5

\* Mutant: the lowest tier starts at twice the expected volume.
VolumeScore_FromTwice(total_volume, expected) ==
    IF expected > 0 /\ total_volume > 0
    THEN IF RatioAbove(total_volume, expected, 10) THEN 25
         ELSE IF RatioAbove(total_volume, expected, 5) THEN 15
         ELSE IF RatioAbove(total_volume, expected, 2) THEN 10
         ELSE 0
    ELSE 0

\* The volume-deviation term
VolumeScore(total_volume, expected) ==
    IF expected > 0 /\ total_volume > 0
    THEN IF RatioAbove(total_volume, expected, 10) THEN 25
         ELSE IF RatioAbove(total_volume, expected, 5) THEN 15
         ELSE IF RatioAbove(total_volume, expected, 3) THEN 10
         ELSE 0
    ELSE 0

\* Mutant: the bounds 20 and 10 are counted in.
OriginatorScore_Inclusive(originators) ==
    IF originators >= 20 THEN 10 ELSE IF originators >= 10 THEN 5 ELSE 0

\* The counterparties term
OriginatorScore(originators) ==
    IF originators > 20 THEN 10 ELSE IF originators > 10 THEN 5 ELSE 0

\* Mutant: neither the findings term nor the sum is capped.
calculate_risk_score_Uncapped(patterns, st, cu) ==
    Len(patterns) * 10
    + VolumeScore(st.total_volume, cu.expected_monthly_volume)
    + KycScore(cu.kyc_risk_rating)
    + OriginatorScore(st.unique_originators)

\* calculate_risk_score(patterns, stats, case), case by its customer
calculate_risk_score(patterns, st, cu) ==
    Min(Min(Len(patterns) * 10, 40)
        + VolumeScore(st.total_volume, cu.expected_monthly_volume)
        + KycScore(cu.kyc_risk_rating)
        + OriginatorScore(st.unique_originators),
        100)

FindingLists == UNION {[1..n -> {"finding"}] : n \in 0..MaxFindings}
RiskInputs ==
    [patterns : FindingLists,
     stats : [total_volume : {0, 3000000, 3800000, 5500000, 20000000},
              unique_originators : {0, 10, 11, 20, 21}],
     customer : [expected_monthly_volume : {0, 500000, 1000000},
                 kyc_risk_rating : {"High", "Medium", "Low", "Very High"},
                 declared_income : {0}]]

\* Two calls: with the findings given, and with one finding more and the
\* statistics and the case unchanged.
CalculateRiskScore ==
    /\ fn_name = "none"
    /\ fn_name' = "calculate_risk_score"
    /\ fn_res' = [score |-> calculate_risk_score(fn_arg.patterns, fn_arg.stats,
                                                fn_arg.customer),
                  score_one_more |->
                      calculate_risk_score(Append(fn_arg.patterns, "finding"),
                                           fn_arg.stats, fn_arg.customer)]
    /\ UNCHANGED <<fn_arg, auditVars, genVars, coordVars>>

InitRisk ==
    /\ InitLedger
    /\ InitGenIdle
    /\ InitCoordIdle
    /\ fn_name = "none"
    /\ fn_arg \in RiskInputs
    /\ fn_res = NoneVal

NextRisk == CalculateRiskScore

SpecRisk == InitRisk /\ [][NextRisk]_vars

---------------------------------------------------------------------------
(* DataParser.calculate_transaction_stats and identify_patterns *)

MaxTxns == 4          \* transactions of a case given to identify_patterns

Abs(a) == IF a < 0 THEN 0 - a ELSE a
RECURSIVE SumAbs(_)
SumAbs(txns) == IF txns = <<>> THEN 0 ELSE Abs(Head(txns).amount) + SumAbs(Tail(txns))

\* datetime.strptime(text, fmt) on the date texts the cases carry: the day
\* (counted from 2023-12-31), or ValueError
strptime(text, fmt) ==
    CASE fmt = "%Y-%m-%d" /\ text = "2024-01-15" -> [ok |-> TRUE, day |-> 15]
      [] fmt = "%Y-%m-%d" /\ text = "2024-01-16" -> [ok |-> TRUE, day |-> 16]
      [] fmt = "%d-%m-%Y" /\ text = "15-01-2024" -> [ok |-> TRUE, day |-> 15]
      [] OTHER -> [ok |-> FALSE, day |-> 0]

\* strftime("%Y-%m-%d") of a day
strftime(day) ==
    CASE day = 15 -> "2024-01-15"
      [] day = 16 -> "2024-01-16"

\* Mutant: only the first format is tried.
ParseDate_FirstFormatOnly(text) == strptime(text, "%Y-%m-%d")

\* The try of the first format and, on ValueError, of the second
ParseDate(text) ==
    IF strptime(text, "%Y-%m-%d").ok THEN strptime(text, "%Y-%m-%d")
    ELSE strptime(text, "%d-%m-%Y")

\* The loop over the transactions: the dates that parse, the others passed
\* over
RECURSIVE ParsedDates(_)
ParsedDates(txns) ==
    IF txns = <<>> THEN <<>>
    ELSE (IF ParseDate(Head(txns).date).ok THEN <<ParseDate(Head(txns).date).day>>
          ELSE <<>>) \o ParsedDates(Tail(txns))

\* a / b of two numbers, as the pair; b = 0 is ZeroDivisionError
Divide(a, b) == [num |-> a, den |-> b]

\* The record returned for no transactions
EmptyStats ==
    [total_transactions |-> 0,
     total_volume |-> 0,
     total_credits |-> 0,
     total_debits |-> 0,
     credit_count |-> 0,
     debit_count |-> 0,
     avg_amount |-> Divide(0, 1),
     max_amount |-> 0,
     min_amount |-> 0,
     date_range_start |-> "N/A",
     date_range_end |-> "N/A",
     date_range_days |-> 0,
     transaction_types |-> <<>>,
     currency |-> "INR",
     unique_originators |-> 0,
     unique_beneficiaries |-> 0]

\* The statistics computed from the list
ComputedStats(txns) ==
    LET n == Len(txns)
        credits == SelectSeq(txns, LAMBDA t : t.amount > 0)
        debits == SelectSeq(txns, LAMBDA t : t.amount < 0)
        dates == ParsedDates(txns)
        days == {dates[i] : i \in 1..Len(dates)}
        max_date == CHOOSE d \in days : \A e \in days : e <= d
        min_date == CHOOSE d \in days : \A e \in days : d <= e
        abs_amounts == {Abs(txns[i].amount) : i \in 1..n}
        types == {txns[i].type : i \in 1..n}
    IN [total_transactions |-> n,
        total_volume |-> SumAbs(txns),
        total_credits |-> SumAbs(credits),
        total_debits |-> SumAbs(debits),
        credit_count |-> Len(credits),
        debit_count |-> Len(debits),
        avg_amount |-> IF n > 0 THEN Divide(SumAbs(txns), n) ELSE Divide(0, 1),
        max_amount |-> IF n > 0 THEN CHOOSE a \in abs_amounts : \A b \in abs_amounts : b <= a
                       ELSE 0,
        min_amount |-> IF n > 0 THEN CHOOSE a \in abs_amounts : \A b \in abs_amounts : a <= b
                       ELSE 0,
        date_range_start |-> IF dates # <<>> THEN strftime(min_date) ELSE "N/A",
        date_range_end |-> IF dates # <<>> THEN strftime(max_date) ELSE "N/A",
        date_range_days |-> IF Len(dates) > 1 THEN (max_date - min_date) + 1 ELSE 1,
        transaction_types |->
            [ty \in types |-> Len(SelectSeq(txns, LAMBDA t : t.type = ty))],
        currency |-> IF n > 0 THEN txns[1].currency ELSE "INR",
        unique_originators |-> Cardinality({txns[i].originator : i \in 1..n}),
        unique_beneficiaries |-> Cardinality({txns[i].beneficiary : i \in 1..n})]

\* Mutant: the early return for no transactions is missing.
calculate_transaction_stats_NoEarlyReturn(txns) == ComputedStats(txns)

\* calculate_transaction_stats(transactions)
calculate_transaction_stats(txns) ==
    IF txns = <<>> THEN EmptyStats ELSE ComputedStats(txns)

Finding(kind, n, date) == [kind |-> kind, n |-> n, date |-> date]

ReportingThreshold == 1000000   \* threshold = 1000000
NearFloor == 800000             \* threshold * 0.8
LargeAmount == 5000000          \* 50 lakhs
SmallDepositLimit == 200000
RoundUnit == 10000
HighRiskTypes == {"SWIFT", "Wire Transfer", "Hawala"}

\* Mutant: the bounds of the band are counted in.
NearThreshold_Inclusive(a) == 0 < a /\ a <= ReportingThreshold /\ a >= NearFloor

\* 0 < t.amount < threshold and t.amount > threshold * 0.8
NearThreshold(a) == 0 < a /\ a < ReportingThreshold /\ a > NearFloor

\* Mutant: the count asked for is that of the small-deposit rule.
StructuringTriggered_Five(n) == n >= 5

\* len(near_threshold) >= 3
StructuringTriggered(n) == n >= 3

\* Mutant: the comparison is strict.
IsLarge_Strict(a) == Abs(a) > LargeAmount

\* abs(t.amount) >= 5000000
IsLarge(a) == Abs(a) >= LargeAmount

\* Pattern 3: the dates in first-occurrence order (dict insertion order),
\* one finding for each date with credits and debits
RECURSIVE DatesInOrder(_, _)
DatesInOrder(txns, seen) ==
    IF txns = <<>> THEN <<>>
    ELSE IF Head(txns).date \in seen THEN DatesInOrder(Tail(txns), seen)
    ELSE <<Head(txns).date>> \o DatesInOrder(Tail(txns), seen \cup {Head(txns).date})
RapidMovement(txns) ==
    LET dates == DatesInOrder(txns, {})
        Credits(d) == SumAbs(SelectSeq(txns, LAMBDA t : t.date = d /\ t.amount > 0))
        Debits(d) == SumAbs(SelectSeq(txns, LAMBDA t : t.date = d /\ ~(t.amount > 0)))
        both == SelectSeq(dates, LAMBDA d : Credits(d) > 0 /\ Debits(d) > 0)
    IN [i \in 1..Len(both) |-> Finding("Rapid movement", 0, both[i])]

\* Pattern 8: one finding for each large transaction, in list order
LargeTransactions(txns) ==
    LET large == SelectSeq(txns, LAMBDA t : IsLarge(t.amount))
    IN [i \in 1..Len(large) |-> Finding("Large transaction", Abs(large[i].amount),
                                         large[i].date)]

\* identify_patterns(case, stats): the findings, in the order of the rules
identify_patterns(txns, cu, st) ==
    LET near == Len(SelectSeq(txns, LAMBDA t : NearThreshold(t.amount)))
        small == Len(SelectSeq(txns, LAMBDA t : 0 < t.amount /\ t.amount < SmallDepositLimit))
        round == Len(SelectSeq(txns, LAMBDA t : t.amount > 0 /\ t.amount % RoundUnit = 0))
        hr == Len(SelectSeq(txns, LAMBDA t : t.type \in HighRiskTypes))
        expected == cu.expected_monthly_volume
        declared == cu.declared_income
    IN IF txns = <<>> THEN <<>>
       ELSE (IF StructuringTriggered(near)
             THEN <<Finding("Structuring", near, NoneVal)>> ELSE <<>>)
         \o (IF expected > 0 /\ st.total_volume > 0
                 /\ RatioAbove(st.total_volume, expected, 3)
             THEN <<Finding("Volume spike", 0, NoneVal)>> ELSE <<>>)
         \o RapidMovement(txns)
         \o (IF small >= 5
             THEN <<Finding("Multiple small deposits", small, NoneVal)>> ELSE <<>>)
         \o (IF declared > 0 /\ st.total_volume > 0
                 /\ RatioAbove(st.total_volume, declared, 2)
             THEN <<Finding("Income mismatch", 0, NoneVal)>> ELSE <<>>)
         \o (IF st.unique_originators > 10
             THEN <<Finding("Multiple originators", st.unique_originators, NoneVal)>>
             ELSE <<>>)
         \o (IF round >= 3
             THEN <<Finding("Round-number transactions", round, NoneVal)>> ELSE <<>>)
         \o LargeTransactions(txns)
         \o (IF hr > 0
             THEN <<Finding("High-risk transfer types", hr, NoneVal)>> ELSE <<>>)

\* The transactions the cases are built from
Transfer(a, d, ty) ==
    [amount |-> a, date |-> d, type |-> ty, currency |-> "INR",
     originator |-> "O1", beneficiary |-> "B1"]
SampleTxns ==
    {Transfer(950000, "2024-01-15", "NEFT"),
     Transfer(800000, "2024-01-15", "NEFT"),
     Transfer(1000000, "2024-01-16", "NEFT"),
     Transfer(5000000, "2024-01-16", "SWIFT"),
     Transfer(-5000000, "2024-01-15", "NEFT"),
     Transfer(4999999, "2024-01-16", "NEFT"),
     Transfer(-800000, "15-01-2024", "NEFT"),
     Transfer(10000, "15/01/2024", "NEFT")}
PatternInputs ==
    [transactions : UNION {[1..n -> SampleTxns] : n \in 0..MaxTxns},
     customer : [expected_monthly_volume : {0, 1000000},
                 kyc_risk_rating : {"Medium"},
                 declared_income : {0, 1000000}]]

\* Steps 2 and 3 of the pipeline on a case: statistics, findings, score
AnalyzeCase ==
    LET st == calculate_transaction_stats(fn_arg.transactions)
        patterns == identify_patterns(fn_arg.transactions, fn_arg.customer, st)
    IN
    /\ fn_name = "none"
    /\ fn_name' = "identify_patterns"
    /\ fn_res' = [stats |-> st,
                  patterns |-> patterns,
                  risk_score |-> calculate_risk_score(patterns, st, fn_arg.customer)]
    /\ UNCHANGED <<fn_arg, auditVars, genVars, coordVars>>

InitPatterns ==
    /\ InitLedger
    /\ \A l \in Loggers : conn[l]
    /\ InitGenIdle
    /\ InitCoordIdle
    /\ fn_name = "none"
    /\ fn_arg \in PatternInputs
    /\ fn_res = NoneVal

NextPatterns == AnalyzeCase

SpecPatterns == InitPatterns /\ [][NextPatterns]_vars

---------------------------------------------------------------------------
(* RAGEngine.identify_typology: components/rag_engine.py *)

BoostPoints == 15     \* confidence + 15

\* keyword_map, in the order of the dict
KeywordTypologies ==
    <<"structuring", "layering", "wire_fraud", "cash_business", "identity_theft",
      "rapid_movement", "round_tripping">>
keyword_map(typo) ==
    CASE typo = "structuring" ->
           {"structuring", "threshold", "smurfing", "below reporting"}
      [] typo = "layering" ->
           {"layering", "multiple accounts", "rapid transfer", "cross-border"}
      [] typo = "wire_fraud" -> {"wire", "swift", "remittance", "foreign"}
      [] typo = "cash_business" -> {"cash", "retail", "business volume"}
      [] typo = "identity_theft" -> {"identity", "kyc", "synthetic", "document"}
      [] typo = "rapid_movement" -> {"rapid", "same day", "immediate transfer"}
      [] typo = "round_tripping" -> {"round-trip", "foreign investment", "circular"}
      [] OTHER -> {}

\* The texts the alert reasons and findings are drawn from, and str.lower()
\* on them.
AlertReasons == {"", "Wire Transfer to foreign account", "Structuring alert",
                 "cash deposits"}
FindingTexts ==
    {"Structuring: 4 transactions just below INR 1,000,000 reporting threshold",
     "Rapid movement: Credits and debits on same day (2024-01-15)",
     "High-risk transfer types: 1 SWIFT transactions",
     "Large transaction: INR 5,000,000.00 on 2024-01-16"}
Lower(str) ==
    CASE str = "Wire Transfer to foreign account" -> "wire transfer to foreign account"
      [] str = "Structuring alert" -> "structuring alert"
      [] str = "Structuring: 4 transactions just below INR 1,000,000 reporting threshold"
           -> "structuring: 4 transactions just below inr 1,000,000 reporting threshold"
      [] str = "Rapid movement: Credits and debits on same day (2024-01-15)"
           -> "rapid movement: credits and debits on same day (2024-01-15)"
      [] str = "High-risk transfer types: 1 SWIFT transactions"
           -> "high-risk transfer types: 1 swift transactions"
      [] str = "Large transaction: INR 5,000,000.00 on 2024-01-16"
           -> "large transaction: inr 5,000,000.00 on 2024-01-16"
      [] OTHER -> str

\* kw in text (substring), for the keywords of keyword_map and a lowered text
KeywordIn(kw, text) ==
    CASE text = "wire transfer to foreign account" -> kw \in {"wire", "foreign"}
      [] text = "structuring alert" -> kw \in {"structuring"}
      [] text = "cash deposits" -> kw \in {"cash"}
      [] text = "structuring: 4 transactions just below inr 1,000,000 reporting threshold"
           -> kw \in {"structuring", "threshold"}
      [] text = "rapid movement: credits and debits on same day (2024-01-15)"
           -> kw \in {"rapid", "same day"}
      [] text = "high-risk transfer types: 1 swift transactions" -> kw \in {"swift"}
      [] OTHER -> FALSE

\* What collection.query(..., where={"type": "typology"}) hands back: nothing,
\* or the nearest typology document with its metadata and its cosine
\* distance in hundredths (has_distances: the result holds distances).
NoHit == [hit |-> FALSE, typology |-> NoneVal, has_distances |-> FALSE, distance |-> 0]
Hit(typo, d) == [hit |-> TRUE, typology |-> typo, has_distances |-> TRUE, distance |-> d]
QueryResults ==
    {NoHit}
    \cup {Hit(typo, d) : typo \in {"structuring", "wire_fraud", "rapid_movement", NoneVal},
                         d \in {0, 5, 10, 50, 100, 150}}
    \cup {[Hit(typo, 0) EXCEPT !.has_distances = FALSE] :
             typo \in {"structuring", "wire_fraud"}}

Max(a, b) == IF a >= b THEN a ELSE b

\* max(0, min(100, (1 - distance) * 100))
BaseConfidence(results) ==
    LET distance == IF results.has_distances THEN results.distance ELSE 100
    IN Max(0, Min(100, 100 - distance))

\* Mutant: the boost is given for the keywords of any typology.
BoostApplies_AnyTypology(typo, typology) == TRUE

\* 'if typo == typology' inside the keyword loop
BoostApplies(typo, typology) == typo = typology

\* The keyword loop over keyword_map.items()
RECURSIVE Boosted(_, _, _, _)
Boosted(confidence, k, typology, combined_text) ==
    IF k > Len(KeywordTypologies) THEN confidence
    ELSE LET typo == KeywordTypologies[k]
             any_kw == \E kw \in keyword_map(typo) :
                          \E i \in 1..Len(combined_text) : KeywordIn(kw, combined_text[i])
             next == IF any_kw /\ BoostApplies(typo, typology)
                     THEN Min(100, confidence + BoostPoints) ELSE confidence
         IN Boosted(next, k + 1, typology, combined_text)

\* Mutant: an empty result is answered with the boost of the keywords.
identify_typology_BoostUnknown(patterns, alert_reason, results) ==
    [typology |-> "unknown",
     confidence |-> IF patterns = <<>> /\ alert_reason = "" THEN 0 ELSE BoostPoints]

\* identify_typology(patterns, alert_reason), given what the store answers
identify_typology(patterns, alert_reason, results) ==
    LET combined_text ==
            <<Lower(alert_reason)>> \o [i \in 1..Len(patterns) |-> Lower(patterns[i])]
        typology == IF results.typology = NoneVal THEN "unknown" ELSE results.typology
    IN IF results.hit
       THEN [typology |-> typology,
             confidence |-> Boosted(BaseConfidence(results), 1, typology,
                                    combined_text)]
       ELSE [typology |-> "unknown", confidence |-> 0]

TypologyInputs ==
    [patterns : UNION {[1..n -> FindingTexts] : n \in 0..2},
     alert_reason : AlertReasons,
     results : QueryResults]

IdentifyTypology ==
    /\ fn_name = "none"
    /\ fn_name' = "identify_typology"
    /\ fn_res' = identify_typology(fn_arg.patterns, fn_arg.alert_reason,
                                   fn_arg.results)
    /\ UNCHANGED <<fn_arg, auditVars, genVars, coordVars>>

InitTypology ==
    /\ InitLedger
    /\ \A l \in Loggers : conn[l]
    /\ InitGenIdle
    /\ InitCoordIdle
    /\ fn_name = "none"
    /\ fn_arg \in TypologyInputs
    /\ fn_res = NoneVal

NextTypology == IdentifyTypology

SpecTypology == InitTypology /\ [][NextTypology]_vars

---------------------------------------------------------------------------
(* AuditLogger.export_audit_trail: components/audit_logger.py *)

\* The keys of an event dict of the in-memory trail and the columns of a row
\* of sar_audit_trail, in order.
EventKeys ==
    <<"case_id", "timestamp", "event_type", "user_id", "input_data",
      "retrieved_context", "llm_reasoning", "generated_output", "human_edits",
      "model_version", "confidence_score", "metadata">>
DbColumns == <<"id">> \o EventKeys

\* list(event.keys()): a row of the store has its id, an event dict has none.
Keys(ev) == IF "id" \in DOMAIN ev THEN DbColumns ELSE EventKeys

\* str(event.get(h, "")) as characters: "x" stands for any character other
\* than the comma, the semicolon and the line feed. A narrative text has
\* lines and commas; the serialised reasoning has commas; the other values
\* of the modelled events have neither.
StrValue(ev, h) ==
    CASE h = "generated_output" ->
           IF ev.generated_output.none THEN <<"x">>
           ELSE <<"x", ",", "x", "\n", "x">>
      [] h = "llm_reasoning" ->
           IF ev.llm_reasoning.none THEN <<"x">> ELSE <<"x", ",", "x">>
      [] OTHER -> <<"x">>

\* str.replace(old, new) on characters
Replace(chars, old, new) ==
    [i \in 1..Len(chars) |-> IF chars[i] = old THEN new ELSE chars[i]]

\* sep.join(parts), parts being character sequences
RECURSIVE Join(_, _)
Join(parts, sep) ==
    IF parts = <<>> THEN <<>>
    ELSE IF Len(parts) = 1 THEN parts[1]
    ELSE parts[1] \o <<sep>> \o Join(Tail(parts), sep)

\* The csv branch of export_audit_trail on a trail
ExportCsv(trail) ==
    IF trail = <<>> THEN <<"No audit trail found">>
    ELSE LET headers == Keys(trail[1])
             Line(ev) ==
                 Join([k \in 1..Len(headers) |->
                          Replace(IF \E j \in 1..Len(Keys(ev)) : Keys(ev)[j] = headers[k]
                                  THEN StrValue(ev, headers[k])
                                  ELSE <<>>,
                                  ",", ";")],
                      ",")
             lines == <<Join([k \in 1..Len(headers) |-> <<headers[k]>>], ",")>>
                      \o [i \in 1..Len(trail) |-> Line(trail[i])]
         IN Join(lines, "\n")

\* The json branch: json.dumps(trail, indent=2, default=str), by the keys of
\* each object of the list, in order
ExportJson(trail) == [i \in 1..Len(trail) |-> Keys(trail[i])]

\* Any caller: AuditLogger.log_event(..., generated_output=text)
LogOutput(l, c) ==
    /\ TotalCalls < MaxEvents
    /\ \E t \in ClockReadings, ins_ok \in BOOLEAN, n \in LlmTextLens :
          log_event(l, c, "llm_generation", "system", get_audit_data(Text(200, 0), Text(n, 0)),
                    Take(Text(n, 0), AuditOutputLimit), ModelName, t, ins_ok)
    /\ UNCHANGED <<conn, sar_cases, returned, genVars, coordVars, fnVars>>

\* export_audit_trail(case_id, "csv") and export_audit_trail(case_id, "json"),
\* one call after the other
ExportAuditTrail(l, c) ==
    /\ fn_name = "none"
    /\ \E tr_csv \in get_audit_trail(l, c), tr_json \in get_audit_trail(l, c) :
          /\ fn_arg' = [logger |-> l, case_id |-> c, events |-> Len(tr_csv)]
          /\ fn_res' = [csv |-> ExportCsv(tr_csv), json |-> ExportJson(tr_json)]
    /\ fn_name' = "export_audit_trail"
    /\ UNCHANGED <<auditVars, genVars, coordVars>>

InitExport ==
    /\ InitLedger
    /\ InitGenIdle
    /\ InitCoordIdle
    /\ InitFnIdle

NextExport ==
    \/ \E l \in Loggers : fn_name = "none" /\ LogEvent(l, "c1")
    \/ \E l \in Loggers : fn_name = "none" /\ LogOutput(l, "c1")
    \/ \E l \in Loggers, c \in CaseIds : ExportAuditTrail(l, c)

SpecExport == InitExport /\ [][NextExport]_vars

---------------------------------------------------------------------------
(* The MCP tool servers: agents/mcp_servers.py *)

\* _register_tools of the three servers
register_tools(server) ==
    CASE server = "transaction_analyzer" ->
             {"analyze_transactions", "calculate_baseline", "classify_typology"}
      [] server = "sar_template_engine" ->
             {"retrieve_templates", "generate_narrative", "get_regulatory_context"}
      [] server = "audit_trail_manager" ->
             {"log_decision", "get_audit_trail", "export_audit"}

\* The branch of a registered tool: the exception it ends with, or NoneVal
\* when it returns its MCPToolResult. arguments.get needs a dict; the tools
\* given a case parse it first; the tools that open the similarity store or
\* call the generator end with what those raise (env_exc).
run_tool(name, arguments, env_exc) ==
    IF ~arguments.is_dict THEN "AttributeError"
    ELSE IF name \in {"analyze_transactions", "calculate_baseline", "generate_narrative"}
            /\ ~CaseInputValid(arguments.case_json)
    THEN "ValidationError"
    ELSE IF name \in {"classify_typology", "retrieve_templates", "generate_narrative",
                      "get_regulatory_context"}
    THEN env_exc
    ELSE NoneVal

\* Mutant: the branches are not wrapped in try/except.
call_tool_NoCatch(server, name, arguments, env_exc) ==
    IF name \notin register_tools(server)
    THEN [raised |-> FALSE, is_error |-> TRUE, content |-> "Unknown tool"]
    ELSE IF run_tool(name, arguments, env_exc) # NoneVal
    THEN [raised |-> TRUE, is_error |-> FALSE, content |-> NoneVal]
    ELSE [raised |-> FALSE, is_error |-> FALSE, content |-> name]

\* call_tool(name, arguments) of a server
call_tool(server, name, arguments, env_exc) ==
    IF name \notin register_tools(server)
    THEN [raised |-> FALSE, is_error |-> TRUE, content |-> "Unknown tool"]
    ELSE IF run_tool(name, arguments, env_exc) = NoneVal
    THEN [raised |-> FALSE, is_error |-> FALSE, content |-> name]
    ELSE IF ExceptException(run_tool(name, arguments, env_exc))
    THEN [raised |-> FALSE, is_error |-> TRUE, content |-> "error"]
    ELSE [raised |-> TRUE, is_error |-> FALSE, content |-> NoneVal]

\* The calls: every server with every tool name of the three servers and an
\* unregistered one; arguments that are a dict or not, with a valid case, an
\* empty case or a case with a NaN amount.
McpCalls ==
    [server : {"transaction_analyzer", "sar_template_engine", "audit_trail_manager"},
     name : register_tools("transaction_analyzer") \cup register_tools("sar_template_engine")
            \cup register_tools("audit_trail_manager") \cup {"nonexistent_tool"},
     arguments : [is_dict : BOOLEAN,
                  case_json : {Raw("c1", "structuring alert",
                                   <<Txn("2024-01-15", Amount(950000))>>, 0),
                               Raw("c1", "structuring alert",
                                   <<Txn("2024-01-15", NaN)>>, 0),
                               [NoRaw EXCEPT !.present = {}]}],
     env_exc : {NoneVal, "RuntimeError", "ConnectionError"}]

CallTool ==
    /\ fn_name = "none"
    /\ fn_name' = "call_tool"
    /\ fn_res' = call_tool(fn_arg.server, fn_arg.name, fn_arg.arguments, fn_arg.env_exc)
    /\ UNCHANGED <<fn_arg, auditVars, genVars, coordVars>>

InitMcp ==
    /\ InitLedger
    /\ InitGenIdle
    /\ InitCoordIdle
    /\ fn_name = "none"
    /\ fn_arg \in McpCalls
    /\ fn_res = NoneVal

SpecMcp == InitMcp /\ [][CallTool]_vars

---------------------------------------------------------------------------
(* Claims about the audit ledger, checked under SpecAudit *)

SeqOf(trail) == [i \in 1..Len(trail) |-> trail[i].seq]
SortedByTimestamp(trail) ==
    \A i \in 1..Len(trail) - 1 : trail[i].timestamp <= trail[i + 1].timestamp
InCreationOrder(trail) ==
    \A i \in 1..Len(trail) - 1 : trail[i].seq < trail[i + 1].seq

\* C1: the trail get_audit_trail(c) returns is in non-decreasing timestamp
\* order and is as long as the number of log_event calls made for c (counted
\* on the asking logger, or over all loggers that share the store).
C1_TrailSortedAndComplete ==
    returned.logger # 0 =>
        /\ SortedByTimestamp(returned.trail)
        /\ \/ Len(returned.trail) = returned.calls_own
           \/ Len(returned.trail) = returned.calls_all

\* C6: log_event never lets an exception escape, whatever the state of the
\* durable store, and every call has appended its event to the in-memory
\* trail of its case id, in call order.
C6_LogEventNeverRaises ==
    /\ ~raised
    /\ \A l \in Loggers, c \in CaseIds :
          /\ Len(in_memory_trail[l][c]) = n_calls[l][c]
          /\ InCreationOrder(in_memory_trail[l][c])
          /\ \A i \in 1..Len(in_memory_trail[l][c]) :
                in_memory_trail[l][c][i].case_id = c

\* C6 witness: a connected logger has logged two events of one case while
\* every INSERT failed, and one logger has no connection at all.
C6_Witness ==
    /\ \E l \in Loggers, c \in CaseIds :
          conn[l] /\ Len(in_memory_trail[l][c]) >= 2 /\ db_rows = <<>>
    /\ \E l \in Loggers : ~conn[l]

\* C7: the ledger is append-only for its readers: the trail a logger returned
\* for c is a prefix of the trail it returns for c next (events compared by
\* their creation index).
C7_AppendOnly ==
    [][(/\ returned.logger # 0
        /\ returned'.logger = returned.logger
        /\ returned'.case_id = returned.case_id)
       => IsPrefix(SeqOf(returned.trail), SeqOf(returned'.trail))]_vars

\* C8: get_audit_trail(c) returns the events of c in the order in which they
\* were created, also those created within one timestamp unit.
C8_CreationOrder ==
    returned.logger # 0 => InCreationOrder(returned.trail)

---------------------------------------------------------------------------
(* Claims about SARGenerator.generate *)

\* The events the run's logger holds, over all case ids, and the step a
\* position of the run belongs to.
RunEvents == SeqSum([c \in CaseIds |-> Len(in_memory_trail[GenLogger][c])], CaseIds)
StepsDone ==
    CASE pc = "idle" -> 0
      [] pc = "stats" -> 1
      [] pc = "patterns" -> 2
      [] pc = "rag" -> 3
      [] pc \in {"llm", "llm_wait"} -> 4
      [] pc = "explain" -> 5
      [] pc = "done" -> 6
      [] OTHER -> fail_stage

\* C2: every step of generate has written exactly one audit event when the
\* next step starts, and a step that fails after validation has written an
\* event for its failure when the run ends: the run holds as many events as
\* steps it went through, the failing one included.
C2_OneEventPerStage ==
    /\ pc # "raised" => RunEvents = StepsDone
    /\ (pc = "raised" /\ fail_stage >= 2) => RunEvents = fail_stage

\* The inputs validation has to reject, stated on the input itself.
FailsValidation(r) ==
    \/ ~(RequiredFields \subseteq r.present)
    \/ r.case_id \in {"", "  "}
    \/ r.alert_reason \in {"", "  "}
    \/ r.transactions = <<>>
    \/ \E i \in 1..Len(r.transactions) :
          \/ r.transactions[i].amount.kind # "finite"
          \/ r.transactions[i].date \in {"", "  "}

\* C3: a run given a case that fails validation has raised in step 1, handed
\* nothing to its caller, and left the audit ledger as it was (no event in any
\* trail, no row in the table).
C3_RejectedBeforeAnyStage ==
    (pc # "idle" /\ FailsValidation(raw)) =>
        /\ pc = "raised"
        /\ fail_stage = 1
        /\ output = "none"
        /\ narrative = NoneText
        /\ next_seq = 1
        /\ db_rows = <<>>
        /\ \A l \in Loggers, c \in CaseIds : in_memory_trail[l][c] = <<>>

C3_Witness ==
    /\ pc = "raised"
    /\ \E i \in 1..Len(raw.transactions) : raw.transactions[i].amount = NaN

\* C4: whenever the backend call of generate_narrative fails, with whatever
\* exception and through whichever client, the run goes on to step 6 with the
\* fallback narrative of the case, which carries the fallback annotation.
C4_BackendFailureRecovered ==
    [][BackendRaises =>
          /\ pc' = "explain"
          /\ fail_stage' = 0
          /\ gen_path' = "fallback"
          /\ narrative' = FallbackNarrative(Case)
          /\ Annotated(narrative')]_vars

C4_Witness ==
    /\ pc = "done"
    /\ gen_path = "fallback"
    /\ Annotated(narrative)
    /\ output # "none"

\* The path an llm_generation event of the trail tells: the fallback annotation
\* is what marks a fallback narrative (model_version is the configured model
\* on both paths).
RecordedPath(ev) ==
    IF Annotated(ev.generated_output) \/ Annotated(ev.llm_reasoning.response_preview)
    THEN "fallback" ELSE "llm"

\* C5: the llm_generation event of a run tells the path the narrative was
\* produced on, whatever the lengths of the narrative and of the notes.
C5_PathRecorded ==
    \A c \in CaseIds :
        \A i \in 1..Len(in_memory_trail[GenLogger][c]) :
            in_memory_trail[GenLogger][c][i].event_type = "llm_generation" =>
                RecordedPath(in_memory_trail[GenLogger][c][i]) = gen_path

\* C9: a run that has started ends, completed or raised.
C9_RunTerminates == (pc # "idle") ~> (pc \in Terminal)

---------------------------------------------------------------------------
(* Claims about CoordinatorAgent.execute *)

\* The agents of the pipeline log other than the audit agent, in log order.
Invoked == SelectSeq(pipeline_log, LAMBDA e : e.agent_name # AuditAgent)
Completed(i) == Len(Invoked) >= i /\ Invoked[i].status = "completed"

\* C10: execute invokes data enrichment, typology, narrative in this order;
\* an agent is invoked only after the one before it completed; a data or
\* typology failure returns 'failed'; 'completed' is returned exactly when all
\* three completed and 'partial' exactly when only the narrative agent failed.
C10_OrderAndHalt ==
    /\ \A i \in 1..Len(Invoked) :
          /\ i <= 3
          /\ Invoked[i].agent_name = <<DataAgent, TypologyAgent, NarrativeAgent>>[i]
          /\ i > 1 => Invoked[i - 1].status = "completed"
    /\ cpc # "returned" => cstatus = "none"
    /\ cpc = "returned" =>
          /\ cstatus \in {"failed", "completed", "partial"}
          /\ cstatus = "failed" <=> (~Completed(1) \/ ~Completed(2))
          /\ cstatus = "completed" <=> (Completed(1) /\ Completed(2) /\ Completed(3))
          /\ cstatus = "partial" <=>
                (Completed(1) /\ Completed(2) /\ Len(Invoked) = 3 /\ ~Completed(3))

C10_Witness ==
    /\ cpc = "returned"
    /\ cstatus = "failed"
    /\ Len(Invoked) = 2
    /\ Invoked[2].agent_name = TypologyAgent

---------------------------------------------------------------------------
(* Claims about the narrative sections *)

HasMarker(text) == \E k \in 1..Len(text), i \in 1..5 : HeaderMatches(i, text[k])

\* C11: _parse_narrative returns all five keys I..V when the text holds a
\* header marker (in either case), and the single key I with the whole
\* stripped text when it holds none.
C11_FiveKeysOrCollapse ==
    fn_name = "_parse_narrative" =>
        IF HasMarker(fn_arg)
        THEN DOMAIN fn_res = {"I", "II", "III", "IV", "V"}
        ELSE DOMAIN fn_res = {"I"} /\ fn_res["I"] = StripText(fn_arg)

Occurs(piece, text) == \E k \in 1..Len(text) : text[k] = piece

\* C12: the fallback narrative of every case parses into the five sections
\* I..V, none of them empty, and holds the customer name, the account number,
\* the total volume and the typology.
C12_FallbackComplete ==
    fn_name = "_generate_fallback_narrative" =>
        /\ DOMAIN fn_res.sections = {"I", "II", "III", "IV", "V"}
        /\ \A key \in DOMAIN fn_res.sections : fn_res.sections[key] # <<>>
        /\ Occurs(fn_arg.name, fn_res.text)
        /\ Occurs(fn_arg.account_number, fn_res.text)
        /\ Occurs(FormatVolume(fn_arg.total_volume), fn_res.text)
        /\ Occurs(fn_arg.typology, fn_res.text)

---------------------------------------------------------------------------
(* Claims about the findings and the risk score *)

\* C13: calculate_risk_score returns an integer from 0 to 100, and with the
\* statistics and the case fixed a longer findings list never scores lower.
C13_ScoreRangeMonotone ==
    fn_name = "calculate_risk_score" =>
        /\ fn_res.score \in 0..100
        /\ fn_res.score_one_more \in 0..100
        /\ fn_res.score <= fn_res.score_one_more

C13_Witness ==
    /\ fn_name = "calculate_risk_score"
    /\ Len(fn_arg.patterns) = 3
    /\ fn_res.score = 80
    /\ fn_res.score_one_more = 90

FindingsOf(kind) == SelectSeq(fn_res.patterns, LAMBDA f : f.kind = kind)

\* The scenario of C14: 4 transactions of 950,000 each, expected monthly
\* volume 0, the other customer fields at their defaults.
IsScenario950 ==
    /\ Len(fn_arg.transactions) = 4
    /\ \A i \in 1..4 : fn_arg.transactions[i].amount = 950000
    /\ fn_arg.customer.expected_monthly_volume = 0
    /\ fn_arg.customer.declared_income = 0
    /\ fn_arg.customer.kyc_risk_rating = "Medium"

\* C14 as stated: the scenario yields a structuring finding and a risk score
\* of at least 40, the volume-deviation term being skipped.
C14_ScenarioScore40 ==
    (fn_name = "identify_patterns" /\ IsScenario950) =>
        /\ Len(FindingsOf("Structuring")) = 1
        /\ fn_res.risk_score >= 40

\* C14 as amended: the scenario yields a structuring finding and a risk score
\* of at least 25 (two findings and the Medium KYC term), the
\* volume-deviation term being skipped.
C14_ScenarioScore25 ==
    (fn_name = "identify_patterns" /\ IsScenario950) =>
        /\ Len(FindingsOf("Structuring")) = 1
        /\ fn_res.risk_score >= 25
        /\ fn_res.risk_score
             = Min(Len(fn_res.patterns) * 10, 40) + 5

C14_Witness ==
    /\ fn_name = "identify_patterns"
    /\ IsScenario950
    /\ fn_res.risk_score = 25

\* Transactions of the case with an amount strictly between 800,000 and
\* 1,000,000.
InBand ==
    {i \in 1..Len(fn_arg.transactions) :
        /\ fn_arg.transactions[i].amount > 800000
        /\ fn_arg.transactions[i].amount < 1000000}

\* C15: the structuring finding is emitted exactly when at least 3
\* transactions lie strictly between 800,000 and 1,000,000; amounts of exactly
\* 800,000 or 1,000,000 do not count.
C15_StructuringIff ==
    fn_name = "identify_patterns" =>
        /\ Len(FindingsOf("Structuring")) = (IF Cardinality(InBand) >= 3 THEN 1 ELSE 0)
        /\ \A i \in 1..Len(FindingsOf("Structuring")) :
              FindingsOf("Structuring")[i].n = Cardinality(InBand)

C15_Witness ==
    /\ fn_name = "identify_patterns"
    /\ Cardinality(InBand) = 2
    /\ \E i \in 1..Len(fn_arg.transactions) : fn_arg.transactions[i].amount = 800000
    /\ \E i \in 1..Len(fn_arg.transactions) : fn_arg.transactions[i].amount = 1000000
    /\ FindingsOf("Structuring") = <<>>

\* Transactions of the case with an absolute amount of at least 5,000,000,
\* in list order.
Qualifying ==
    SelectSeq(fn_arg.transactions,
              LAMBDA t : t.amount >= 5000000 \/ t.amount <= -5000000)

\* C16: there is one large-transaction finding for each transaction whose
\* absolute amount is at least 5,000,000 (credit or debit, 5,000,000 itself
\* included), in list order, and none for any other transaction.
C16_LargePerTransaction ==
    fn_name = "identify_patterns" =>
        /\ Len(FindingsOf("Large transaction")) = Len(Qualifying)
        /\ \A i \in 1..Len(Qualifying) :
              /\ FindingsOf("Large transaction")[i].date = Qualifying[i].date
              /\ FindingsOf("Large transaction")[i].n \in
                    {Qualifying[i].amount, 0 - Qualifying[i].amount}

C16_Witness ==
    /\ fn_name = "identify_patterns"
    /\ Len(FindingsOf("Large transaction")) = 2
    /\ \E i \in 1..Len(fn_arg.transactions) : fn_arg.transactions[i].amount = 5000000
    /\ \E i \in 1..Len(fn_arg.transactions) : fn_arg.transactions[i].amount = -5000000
    /\ \E i \in 1..Len(fn_arg.transactions) : fn_arg.transactions[i].amount = 4999999

---------------------------------------------------------------------------
(* Claims about the typology classifier *)

\* C17: when the store answers the typology query with nothing,
\* identify_typology returns ("unknown", 0.0) whatever the findings and the
\* alert reason are; no keyword raises the confidence.
C17_UnknownOnEmptyStore ==
    (fn_name = "identify_typology" /\ ~fn_arg.results.hit) =>
        fn_res = [typology |-> "unknown", confidence |-> 0]

C17_Witness ==
    /\ fn_name = "identify_typology"
    /\ ~fn_arg.results.hit
    /\ fn_arg.alert_reason = "Structuring alert"
    /\ Len(fn_arg.patterns) = 2
    /\ fn_res.typology = "unknown"

\* A keyword of typology typo occurs in the lowercased alert reason or
\* findings of the call.
KeywordOccurs(typo) ==
    \E kw \in keyword_map(typo) :
        \/ KeywordIn(kw, Lower(fn_arg.alert_reason))
        \/ \E i \in 1..Len(fn_arg.patterns) : KeywordIn(kw, Lower(fn_arg.patterns[i]))

Clamped ==
    LET c == 100 - (IF fn_arg.results.has_distances THEN fn_arg.results.distance
                    ELSE 100)
    IN IF c < 0 THEN 0 ELSE IF c > 100 THEN 100 ELSE c

\* C18: with a retrieved document, the typology returned is that of the
\* document; the confidence is clamp((1 - distance) * 100, 0, 100), plus 15
\* (capped at 100) exactly when a keyword of the retrieved typology occurs in
\* the text; keywords of other typologies change nothing; the confidence is
\* between 0 and 100.
C18_BoostOnlyRetrieved ==
    (fn_name = "identify_typology" /\ fn_arg.results.hit) =>
        /\ fn_arg.results.typology # NoneVal =>
              fn_res.typology = fn_arg.results.typology
        /\ fn_res.confidence \in 0..100
        /\ fn_res.confidence =
              IF KeywordOccurs(fn_res.typology)
              THEN (IF Clamped + 15 > 100 THEN 100 ELSE Clamped + 15)
              ELSE Clamped

C18_Witness ==
    /\ fn_name = "identify_typology"
    /\ fn_arg.results.hit
    /\ fn_arg.results.typology = "structuring"
    /\ fn_arg.results.distance = 50
    /\ KeywordOccurs("wire_fraud")
    /\ ~KeywordOccurs("structuring")
    /\ fn_res = [typology |-> "structuring", confidence |-> 50]

---------------------------------------------------------------------------
(* Claims about the exports *)

\* text.split(sep) on characters
RECURSIVE Split(_, _)
Split(chars, sep) ==
    IF \E i \in 1..Len(chars) : chars[i] = sep
    THEN LET i == CHOOSE k \in 1..Len(chars) :
                     chars[k] = sep /\ \A j \in 1..(k - 1) : chars[j] # sep
         IN <<SubSeq(chars, 1, i - 1)>> \o Split(SubSeq(chars, i + 1, Len(chars)), sep)
    ELSE <<chars>>

CsvRows == Split(fn_res.csv, "\n")
HeaderRow == Split(CsvRows[1], ",")

C20_CsvRowPerEvent ==
    fn_name = "export_audit_trail" =>
        IF fn_arg.events = 0
        THEN fn_res.csv = <<"No audit trail found">>
        ELSE /\ Len(CsvRows) = fn_arg.events + 1
             /\ \A r \in 1..Len(CsvRows) :
                   Len(Split(CsvRows[r], ",")) = Len(HeaderRow)

---------------------------------------------------------------------------
(* Claims about calculate_transaction_stats *)

\* C21: calculate_transaction_stats on the empty transaction list returns the
\* degenerate record (every count and every amount 0, both bounds of the date
\* range "N/A"), and for no list, empty or not, does it divide by zero.
C21_EmptyStatsNoZeroDivision ==
    fn_name = "identify_patterns" =>
        /\ fn_res.stats.avg_amount.den # 0
        /\ fn_arg.transactions = <<>> =>
              /\ \A k \in {"total_transactions", "total_volume", "total_credits",
                            "total_debits", "credit_count", "debit_count",
                            "max_amount", "min_amount", "date_range_days",
                            "unique_originators", "unique_beneficiaries"} :
                     fn_res.stats[k] = 0
              /\ fn_res.stats.avg_amount.num = 0
              /\ fn_res.stats.date_range_start = "N/A"
              /\ fn_res.stats.date_range_end = "N/A"
              /\ fn_res.stats.transaction_types = <<>>

C21_Witness ==
    /\ fn_name = "identify_patterns"
    /\ fn_arg.transactions = <<>>
    /\ fn_res.stats.total_transactions = 0

\* The calendar day a date text names when it is written in one of the two
\* accepted formats (YYYY-MM-DD, DD-MM-YYYY), counted from 2023-12-31; 0 when
\* it is written in neither.
CalendarDay(text) ==
    CASE text \in {"2024-01-15", "15-01-2024"} -> 15
      [] text = "2024-01-16" -> 16
      [] OTHER -> 0
ParseableAt == {i \in 1..Len(fn_arg.transactions) :
                   CalendarDay(fn_arg.transactions[i].date) # 0}
ParseableDays == {CalendarDay(fn_arg.transactions[i].date) : i \in ParseableAt}
SpanInDays ==
    IF Cardinality(ParseableAt) >= 2
    THEN (CHOOSE d \in ParseableDays : \A e \in ParseableDays : e <= d)
         - (CHOOSE d \in ParseableDays : \A e \in ParseableDays : d <= e) + 1
    ELSE 1

\* C27 (as stated): date_range_days is (latest parseable date - earliest
\* parseable date, in days) + 1 when at least 2 transaction dates parse in one
\* of the two accepted formats, and 1 otherwise, for every transaction list.
C27_DateRangeDays ==
    fn_name = "identify_patterns" => fn_res.stats.date_range_days = SpanInDays

\* C27 (amended): for every non-empty transaction list date_range_days is
\* (latest parseable date - earliest parseable date, in days) + 1 when at
\* least 2 transaction dates parse in one of the two accepted formats, and 1
\* otherwise, the dates matching neither format being left out; for the empty
\* list it is 0.
C27_DateRangeDaysNonEmpty ==
    fn_name = "identify_patterns" =>
        /\ fn_arg.transactions # <<>> => fn_res.stats.date_range_days = SpanInDays
        /\ fn_arg.transactions = <<>> => fn_res.stats.date_range_days = 0

C27_Witness ==
    /\ fn_name = "identify_patterns"
    /\ \E i, j, k \in 1..Len(fn_arg.transactions) :
          /\ fn_arg.transactions[i].date = "15-01-2024"
          /\ fn_arg.transactions[j].date = "2024-01-16"
          /\ fn_arg.transactions[k].date = "15/01/2024"
    /\ fn_res.stats.date_range_days = 2
    /\ fn_res.stats.date_range_start = "2024-01-15"

---------------------------------------------------------------------------
(* Claims about the rapid-movement rule *)

CreditsOn(day) ==
    SumAbs(SelectSeq(fn_arg.transactions,
                     LAMBDA t : CalendarDay(t.date) = day /\ t.amount > 0))
DebitsOn(day) ==
    SumAbs(SelectSeq(fn_arg.transactions,
                     LAMBDA t : CalendarDay(t.date) = day /\ t.amount < 0))
RapidFindingsOn(day) ==
    Len(SelectSeq(fn_res.patterns,
                  LAMBDA f : f.kind = "Rapid movement" /\ CalendarDay(f.date) = day))

\* C26: identify_patterns gives exactly one rapid-movement finding for each
\* calendar date on which the credits sum to a positive amount and the debits
\* sum to a positive amount, and none for any other calendar date; a date
\* written in either of the two accepted formats is the same calendar date.
C26_OneRapidPerDate ==
    fn_name = "identify_patterns" =>
        \A day \in {15, 16} :
            RapidFindingsOn(day) =
                IF CreditsOn(day) > 0 /\ DebitsOn(day) > 0 THEN 1 ELSE 0

---------------------------------------------------------------------------
(* Claims about the terms of the risk score *)

PatternTerm == IF 10 * Len(fn_arg.patterns) <= 40 THEN 10 * Len(fn_arg.patterns) ELSE 40
VolumeTerm ==
    LET total == fn_arg.stats.total_volume
        expected == fn_arg.customer.expected_monthly_volume
    IN IF expected <= 0 \/ total <= 0 THEN 0
       ELSE IF total > 10 * expected THEN 25
       ELSE IF total > 5 * expected THEN 15
       ELSE IF total > 3 * expected THEN 10
       ELSE 0
KycTerm ==
    LET rating == fn_arg.customer.kyc_risk_rating
    IN IF rating = "High" THEN 15
       ELSE IF rating = "Low" THEN 0
       ELSE 5
CounterpartyTerm ==
    LET originators == fn_arg.stats.unique_originators
    IN IF originators > 20 THEN 10 ELSE IF originators > 10 THEN 5 ELSE 0
TermSum == PatternTerm + VolumeTerm + KycTerm + CounterpartyTerm

\* C25: calculate_risk_score is min(100, P + V + K + C): P = min(10 * number
\* of findings, 40); V = 25, 15 or 10 for total/expected above 10, 5 or 3 (the
\* highest tier only) and 0 otherwise or when expected or total volume is not
\* positive; K = 15 for High, 5 for Medium, 0 for Low, 5 for any other rating;
\* C = 10 for more than 20 unique originators, 5 for more than 10, else 0.
C25_ScoreFormula ==
    fn_name = "calculate_risk_score" =>
        fn_res.score = (IF TermSum <= 100 THEN TermSum ELSE 100)

C25_Witness ==
    /\ fn_name = "calculate_risk_score"
    /\ fn_arg.customer.kyc_risk_rating = "Very High"
    /\ fn_arg.stats.unique_originators = 20
    /\ fn_arg.stats.total_volume = 5500000
    /\ fn_arg.customer.expected_monthly_volume = 1000000
    /\ Len(fn_arg.patterns) = 5
    /\ fn_res.score = 40 + 15 + 5 + 5

\* C29: the score returned by calculate_risk_score never exceeds 90, whatever
\* the findings, the statistics and the case: the cap at 100 never takes
\* effect.
C29_ScoreAtMost90 ==
    fn_name = "calculate_risk_score" =>
        /\ fn_res.score <= 90
        /\ fn_res.score_one_more <= 90

C29_Witness ==
    /\ fn_name = "calculate_risk_score"
    /\ Len(fn_arg.patterns) >= 4
    /\ fn_arg.customer.kyc_risk_rating = "High"
    /\ fn_arg.stats.unique_originators > 20
    /\ fn_res.score = 90

\* C30: on the findings identify_patterns returns for a case and its
\* statistics, a positive volume-deviation term of the score implies a
\* volume-spike finding, and a volume-spike finding implies a
\* volume-deviation term of at least 10.
C30_SpikeIffVolumeTerm ==
    fn_name = "identify_patterns" =>
        LET term == VolumeScore(fn_res.stats.total_volume,
                                fn_arg.customer.expected_monthly_volume)
        IN /\ term > 0 => FindingsOf("Volume spike") # <<>>
           /\ FindingsOf("Volume spike") # <<>> => term >= 10

C30_Witness ==
    /\ fn_name = "identify_patterns"
    /\ fn_res.stats.total_volume = 3800000
    /\ fn_arg.customer.expected_monthly_volume = 1000000
    /\ Len(FindingsOf("Volume spike")) = 1
    /\ fn_res.risk_score >= 10

---------------------------------------------------------------------------
(* Claims about CaseInput *)

---------------------------------------------------------------------------
(* Claims about the audit record of the generation step *)

\* The llm_generation events the generator has written
GenerationEvents ==
    UNION {{in_memory_trail[GenLogger][c][i] :
               i \in {j \in 1..Len(in_memory_trail[GenLogger][c]) :
                         in_memory_trail[GenLogger][c][j].event_type = "llm_generation"}} :
           c \in CaseIds}

\* C23 (as stated): the audit record written for a generation step carries
\* only bounded previews of the prompt and of the response (at most their
\* first 500 characters each) and never the full prompt or the full response,
\* whatever their length.
C23_OnlyPreviews ==
    \A ev \in GenerationEvents :
        /\ ev.llm_reasoning.prompt_preview.len <= 500
        /\ ev.llm_reasoning.response_preview.len <= 500
        /\ ev.generated_output.len <= 500
        /\ ev.llm_reasoning.prompt_preview.len < ev.llm_reasoning.prompt_length
        /\ ev.llm_reasoning.response_preview.len < ev.llm_reasoning.response_length
        /\ ev.generated_output.len < ev.llm_reasoning.response_length

\* C23 (amended): the audit record written for a generation step carries, in
\* its reasoning, only bounded previews of the prompt and of the response (at
\* most their first 500 characters each) and, as its generated output, at
\* most the first 5000 characters of the narrative text; it never carries in
\* full a prompt of more than 500 characters or a response of more than 5000
\* characters.
C23_PreviewsAndSnapshotBounded ==
    \A ev \in GenerationEvents :
        /\ ev.llm_reasoning.prompt_preview.len <= 500
        /\ ev.llm_reasoning.response_preview.len <= 500
        /\ ev.generated_output.len <= 5000
        /\ ev.llm_reasoning.response_length = narrative.len
        /\ ev.llm_reasoning.prompt_length > 500 =>
              ev.llm_reasoning.prompt_preview.len < ev.llm_reasoning.prompt_length
        /\ ev.llm_reasoning.response_length > 5000 =>
              /\ ev.llm_reasoning.response_preview.len < ev.llm_reasoning.response_length
              /\ ev.generated_output.len < ev.llm_reasoning.response_length

C23_Witness ==
    \E ev \in GenerationEvents :
        /\ ev.llm_reasoning.prompt_length = 3000
        /\ ev.llm_reasoning.prompt_preview.len = 500
        /\ ev.llm_reasoning.response_length = 7000
        /\ ev.llm_reasoning.response_preview.len = 500
        /\ ev.generated_output.len = 5000

---------------------------------------------------------------------------
(* Claims about the events of one run of generate *)

StageEvents ==
    <<"data_input", "analysis", "pattern_detection", "rag_retrieval",
      "llm_generation", "explainability">>
\* The events the generator holds for the case id of the run
RunTrail == IF Case.ok THEN in_memory_trail[GenLogger][Case.case_id] ELSE <<>>

\* C28: a run of generate that returns normally has appended exactly six
\* audit events for its case id, in the order data_input, analysis,
\* pattern_detection, rag_retrieval, llm_generation, explainability, all with
\* the case id of the run and the caller's user id; a run that raises at
\* stage k has appended exactly the events of the stages before k.
C28_SixEventsInOrder ==
    /\ pc \in Terminal => RunEvents = Len(RunTrail)
    /\ pc = "done" =>
          /\ [i \in 1..Len(RunTrail) |-> RunTrail[i].event_type] = StageEvents
          /\ \A i \in 1..Len(RunTrail) :
                /\ RunTrail[i].case_id = Case.case_id
                /\ RunTrail[i].user_id = user_id
    /\ pc = "raised" =>
          /\ [i \in 1..Len(RunTrail) |-> RunTrail[i].event_type]
                = SubSeq(StageEvents, 1, fail_stage - 1)
          /\ \A i \in 1..Len(RunTrail) :
                /\ RunTrail[i].case_id = Case.case_id
                /\ RunTrail[i].user_id = user_id

C28_Witness ==
    /\ pc = "done"
    /\ raw.case_id = " c2 "
    /\ user_id = "analyst"
    /\ Len(in_memory_trail[GenLogger]["c2"]) = 6
    /\ in_memory_trail[GenLogger]["c2"][6].event_type = "explainability"

---------------------------------------------------------------------------
(* Claims about the MCP tool servers *)

\* The tool ran to its return: the call had a dict of arguments, a case that
\* passes validation where the tool takes one, and nothing raised in the
\* store or the generator where the tool uses them.
RunsClean ==
    /\ fn_arg.arguments.is_dict
    /\ fn_arg.name \in {"analyze_transactions", "calculate_baseline", "generate_narrative"}
          => ~FailsValidation(fn_arg.arguments.case_json)
    /\ fn_arg.name \in {"classify_typology", "retrieve_templates", "generate_narrative",
                        "get_regulatory_context"}
          => fn_arg.env_exc = NoneVal

\* C24: call_tool of every MCP server never raises: a tool name that is not
\* registered gives a result with is_error true, an exception raised while a
\* registered tool runs gives a result with is_error true, and a registered
\* tool that runs without exception gives a result with is_error false.
C24_CallToolNeverRaises ==
    fn_name = "call_tool" =>
        /\ ~fn_res.raised
        /\ fn_arg.name \notin register_tools(fn_arg.server) => fn_res.is_error
        /\ (fn_arg.name \in register_tools(fn_arg.server) /\ ~RunsClean) => fn_res.is_error
        /\ (fn_arg.name \in register_tools(fn_arg.server) /\ RunsClean) => ~fn_res.is_error

C24_Witness ==
    /\ fn_name = "call_tool"
    /\ fn_arg.server = "transaction_analyzer"
    /\ fn_arg.name = "analyze_transactions"
    /\ fn_arg.arguments.is_dict
    /\ fn_arg.arguments.case_json.present = {}
    /\ fn_res.is_error
    /\ ~fn_res.raised

=============================================================================
